---- MODULE Spec2Model ----
(***************************************************************************)
(* FUZZMASTER: the adaptive mutation policy engine.                        *)
(*   FeedbackAnalyzer          src/feedback_analyzer.py                    *)
(*   PPOAgent                  src/ppo_agent.py                            *)
(*   MutationStrategySelector  src/mutation_selector.py                    *)
(*   FuzzingController         src/fuzzing_controller.py                   *)
(*                                                                         *)
(* Numbers.  The program computes in floating point; the model computes    *)
(* the same expressions exactly, in fixed point:                           *)
(*   - percentages and executions/second are kept in hundredths ("centi"): *)
(*     45.67% is 4567, 2500.50 exec/s is 250050;                           *)
(*   - a reward is kept in units of 1/RewardScale;                         *)
(*   - a state-vector component is kept in units of 1/VecScale.            *)
(* Floating-point rounding is therefore not part of the model.             *)
(***************************************************************************)
EXTENDS Integers, Sequences, FiniteSets, TLC

VARIABLES
    \* ---- FeedbackAnalyzer (feedback_analyzer.py:67-92)
    history_size,       \* self.history_size
    metrics_history,    \* self.metrics_history : Seq(FuzzingMetrics)
    baseline_metrics,   \* self.baseline_metrics : FuzzingMetrics or None
    \* ---- PPOAgent (ppo_agent.py:183-197)
    params,             \* self.network parameters (abstract value, or NaN)
    states,             \* self.states
    actions,            \* self.actions
    log_probs,          \* self.log_probs
    values,             \* self.values
    rewards,            \* self.rewards
    dones,              \* self.dones
    agent_file,         \* the file at the path PPOAgent.save and load are called
                        \*   with: None, or the checkpoint torch.save wrote
    history_file,       \* the file at the path save_history and load_history are
                        \*   called with: None, or the JSON list json.dump wrote
    \* ---- MutationStrategySelector (mutation_selector.py:41-55)
    strategy_stats,     \* self.strategy_stats
    current_strategy,   \* self.current_strategy : MutationStrategy or None
    strategy_history,   \* self.strategy_history
    \* ---- AFLCustomMutator (mutation_selector.py:327-330)
    current_config,     \* self.current_config : the configuration produced for the
                        \*   engine, or None (FuzzingController owns no mutator and
                        \*   never calls get_afl_mutation_config)
    \* ---- FuzzingController (fuzzing_controller.py:95-112)
    fuzzer_process,     \* the engine process: "none", "alive" or "dead"
    running,            \* self.running
    pc,                 \* position of run(): "idle", "loop", "finally", "done", "raised"
                        \*   ("" while no run() exists)
    now,                \* time.time(), in sleep ticks since start_time
    last_update,        \* run()'s local last_update
    last_checkpoint,    \* run()'s local last_checkpoint
    episodes,           \* self.episodes
    total_updates,      \* self.total_updates
    training_stats,     \* len(self.training_stats)
    \* ---- what the operations returned or did last (observation only)
    lastOp,             \* name of the operation that took the last step
    ret,                \* its return value
    polled,             \* every snapshot update() has appended, in order
    lastRead,           \* the file as the last FeedbackAnalyzer.update() read it
    events,             \* what run() has done to the outside world, in order
    selector_calls,     \* every call a caller of the selector alone has made, in order:
                        \*   <<"select", action, 0, 0>>,
                        \*   <<"update", coverage_gain, crashes, paths>> or
                        \*   <<"reset", 0, 0, 0>>
    computed            \* what the last call of a side-effect-free computation
                        \*   (compute_gae, the policy loss term) was given and
                        \*   returned, or None

faVars   == <<history_size, metrics_history, baseline_metrics>>
bufVars  == <<states, actions, log_probs, values, rewards, dones>>
agVars   == <<params, states, actions, log_probs, values, rewards, dones>>
selVars  == <<strategy_stats, current_strategy, strategy_history>>
mutVars  == <<current_config>>
fileVars == <<agent_file, history_file>>
ctlVars  == <<fuzzer_process, running, pc, now, last_update, last_checkpoint,
              episodes, total_updates, training_stats>>
obsVars  == <<lastOp, ret, polled, lastRead, events, selector_calls, computed>>
vars     == <<faVars, agVars, selVars, mutVars, fileVars, ctlVars, obsVars>>

\* Python's Optional: None is the empty tuple, a value x is <<x>>
None    == << >>
Some(x) == <<x>>

----------------------------------------------------------------------------
(* Bounds of the model *)

\* history_size given to FeedbackAnalyzer in the analyzer-only specification
HistorySize == 3
\* number of appended snapshots explored in the analyzer-only specification
MaxPolls == 4
\* transitions stored, and optimisations run, in the agent-only specification
MaxBuffer == 2
MaxUpdates == 2
\* select_strategy calls, and update_strategy_stats calls, in the selector-only
\* specification
MaxSelections == 3
MaxOutcomes == 2
\* reset_stats calls in the selector-with-reset specification
MaxResets == 1
\* decision steps taken in the step-only specification
MaxSteps == 3
\* the largest normalised advantage, in halves, given to the clipped objective
MaxAdvantageHalves == 4
\* the controller's configuration, in ticks of the loop's time.sleep(10):
\* duration_hours, update_interval and checkpoint_interval
MaxDurationTicks == 36
UpdateIntervalTicks == 1
CheckpointIntervalTicks == 14

----------------------------------------------------------------------------
(* FuzzingMetrics and the fuzzer_stats file *)

\* FuzzingMetrics.__init__: every field starts at 0
NewMetrics ==
    [coverage |-> 0, unique_crashes |-> 0, unique_hangs |-> 0, total_execs |-> 0,
     execs_per_sec |-> 0, paths_total |-> 0, paths_found |-> 0, pending_favs |-> 0,
     pending_total |-> 0, bitmap_cvg |-> 0, stability |-> 0, levels |-> 0,
     last_crash |-> 0, last_hang |-> 0, last_path |-> 0, cycles_done |-> 0]

\* The text after "key :" in the file.
\*   kind "int": digits only, value n          ("150")
\*   kind "dec": digits '.' digits, n in centi ("2500.50" is 250050)
\*   kind "bad": digits and several dots       ("1.2.3"), n its leading digits
\*   pct: whether a '%' follows the number
TInt(n)    == [kind |-> "int", n |-> n, pct |-> FALSE]
TDec(c)    == [kind |-> "dec", n |-> c, pct |-> FALSE]
TPct(c)    == [kind |-> "dec", n |-> c, pct |-> TRUE]
TIntPct(n) == [kind |-> "int", n |-> n, pct |-> TRUE]
TBad(n)    == [kind |-> "bad", n |-> n, pct |-> FALSE]

\* The file: exists (Path.exists and open succeed) and its key : text lines
File(kv) == [exists |-> TRUE, kv |-> kv]
NoFile   == [exists |-> FALSE, kv |-> [none |-> TInt(0)]]

\* patterns of parse_fuzzer_stats: attribute, key in the file, pattern class
\*   "d"  (\d+)      "f"  ([\d.]+)      "p"  ([\d.]+)%
patterns ==
    << <<"total_execs",    "execs_done",    "d">>,
       <<"execs_per_sec",  "execs_per_sec", "f">>,
       <<"paths_total",    "paths_total",   "d">>,
       <<"unique_crashes", "saved_crashes", "d">>,
       <<"unique_hangs",   "saved_hangs",   "d">>,
       <<"bitmap_cvg",     "bitmap_cvg",    "p">>,
       <<"stability",      "stability",     "p">>,
       <<"pending_favs",   "pending_favs",  "d">>,
       <<"pending_total",  "pending_total", "d">>,
       <<"cycles_done",    "cycles_done",   "d">>,
       <<"last_crash",     "last_crash",    "d">>,
       <<"last_path",      "last_path",     "d">>  >>

\* re.search(pattern, content): does the pattern match the text of the key?
Matches(kv, p) ==
    /\ p[2] \in DOMAIN kv
    /\ (p[3] = "p" => kv[p[2]].pct)

\* match.group(1) converted; raises = float(value) raises ValueError
\*   (\d+) captures the leading digits only, so it never contains a '.'
\*   ([\d.]+) captures dots too: '.' in value selects float(value)
Converted(kv, p) ==
    LET t == kv[p[2]] IN
    IF p[3] = "d"
      THEN [raises |-> FALSE, v |-> IF t.kind = "dec" THEN t.n \div 100 ELSE t.n]
      ELSE CASE t.kind = "int" -> [raises |-> FALSE, v |-> t.n * 100]
             [] t.kind = "dec" -> [raises |-> FALSE, v |-> t.n]
             [] OTHER          -> [raises |-> TRUE,  v |-> 0]

\* the for loop over patterns.items(), from pattern i on; None when it raised
RECURSIVE ParseFrom(_, _, _)
ParseFrom(kv, i, m) ==
    IF i > Len(patterns) THEN Some(m)
    ELSE LET p == patterns[i] IN
         IF ~Matches(kv, p) THEN ParseFrom(kv, i + 1, m)
         ELSE LET c == Converted(kv, p) IN
              IF c.raises THEN None
              ELSE ParseFrom(kv, i + 1, [m EXCEPT ![p[1]] = c.v])

\* FeedbackAnalyzer.parse_fuzzer_stats: Some(metrics) or None
parse_fuzzer_stats(content) ==
    IF ~content.exists THEN None
    ELSE LET r == ParseFrom(content.kv, 1, NewMetrics) IN
         IF r = None THEN None
         ELSE LET m == r[1] IN
              Some([m EXCEPT !.coverage = m.bitmap_cvg, !.paths_found = m.paths_total])

\* FeedbackAnalyzer.get_current_metrics
get_current_metrics(content) == parse_fuzzer_stats(content)

----------------------------------------------------------------------------
(* The contents the engine's fuzzer_stats file is read with *)

\* the two snapshots of the reward scenario (spec.md, section 8)
FileScenarioA ==
    File([cycles_done |-> TInt(1), execs_done |-> TInt(50000), execs_per_sec |-> TInt(500),
          paths_total |-> TInt(100), saved_crashes |-> TInt(2), saved_hangs |-> TInt(0),
          bitmap_cvg |-> TPct(1000), stability |-> TIntPct(95),
          pending_favs |-> TInt(4), pending_total |-> TInt(9)])
FileScenarioB ==
    File([cycles_done |-> TInt(1), execs_done |-> TInt(60000), execs_per_sec |-> TInt(520),
          paths_total |-> TInt(130), saved_crashes |-> TInt(3), saved_hangs |-> TInt(0),
          bitmap_cvg |-> TPct(1250), stability |-> TIntPct(96),
          pending_favs |-> TInt(6), pending_total |-> TInt(12)])
\* the file of the module's self-test (feedback_analyzer.py:376-393)
FileSelfTest ==
    File([cycles_done |-> TInt(5), execs_done |-> TInt(100000), execs_per_sec |-> TDec(250050),
          paths_total |-> TInt(150), saved_crashes |-> TInt(3), saved_hangs |-> TInt(1),
          bitmap_cvg |-> TPct(4567), stability |-> TPct(9850),
          pending_favs |-> TInt(10), pending_total |-> TInt(25),
          last_path |-> TInt(1234567895), last_crash |-> TInt(1234567890)])
\* the self-test file read while the engine rewrites it: only its first lines are there
FilePartial ==
    File([cycles_done |-> TInt(5), execs_done |-> TInt(100000)])
\* a long campaign: counters far beyond the normalisation divisors
FileLong ==
    File([cycles_done |-> TInt(42), execs_done |-> TInt(90000000), execs_per_sec |-> TDec(312075),
          paths_total |-> TInt(5200), saved_crashes |-> TInt(250), saved_hangs |-> TInt(7),
          bitmap_cvg |-> TPct(6100), stability |-> TPct(9990),
          pending_favs |-> TInt(340), pending_total |-> TInt(900)])
\* a number float() rejects ("2500.5.0")
FileGarbled ==
    File([cycles_done |-> TInt(5), execs_done |-> TInt(100000), execs_per_sec |-> TBad(2500),
          paths_total |-> TInt(150)])

FileContents ==
    {NoFile, FileScenarioA, FileScenarioB, FileSelfTest, FilePartial, FileLong, FileGarbled}

----------------------------------------------------------------------------
(* FeedbackAnalyzer *)

\* a reward is kept in units of 1/RewardScale
RewardScale == 20 * 1000
\* one state-vector component, in units of 1/VecScale
VecScale == 600 * 1000

Min2(a, b) == IF a < b THEN a ELSE b
Last(s) == s[Len(s)]

\* mutant of history_push: the size test is off by one (>= for >)
history_push_off_by_one(h, m, H) ==
    LET a == Append(h, m) IN IF Len(a) >= H THEN Tail(a) ELSE a

\* update(): append, then pop(0) while over history_size
history_push(h, m, H) ==
    LET a == Append(h, m) IN IF Len(a) > H THEN Tail(a) ELSE a

\* update(): the baseline is set once, by the first snapshot
baseline_set(b, m) == IF b = None THEN Some(m) ELSE b

\* FeedbackAnalyzer.update as a whole, reading the file with this content;
\* self.last_update_time is left out: get_state_vector uses it only in
\* last_update_time - (last_update_time - 60)
FeedbackAnalyzer_update(content) ==
    LET r == get_current_metrics(content) IN
    IF r = None
      THEN UNCHANGED <<metrics_history, baseline_metrics>>
      ELSE /\ metrics_history' = history_push(metrics_history, r[1], history_size)
           /\ baseline_metrics' = baseline_set(baseline_metrics, r[1])

\* what update() returns
FeedbackAnalyzer_update_ret(content) == get_current_metrics(content) # None

\* mutant of get_state_vector: the pending component is left out
get_state_vector_no_pending(h) ==
    IF Len(h) = 0 THEN [i \in 1..9 |-> 0]
    ELSE
      LET current  == h[Len(h)]
          hasPrev  == Len(h) >= 2
          previous == h[Len(h) - 1]
      IN << current.coverage * (VecScale \div (100 * 100)),
            IF hasPrev THEN (current.coverage - previous.coverage) * (VecScale \div 6000) ELSE 0,
            current.unique_crashes * (VecScale \div 100),
            IF hasPrev THEN (current.unique_crashes - previous.unique_crashes) * (VecScale \div 60)
                       ELSE 0,
            current.execs_per_sec * (VecScale \div (100 * 1000)),
            current.paths_total * (VecScale \div 1000),
            IF hasPrev THEN (current.paths_total - previous.paths_total) * (VecScale \div 60)
                       ELSE 0,
            current.stability * (VecScale \div (100 * 100)),
            current.cycles_done * (VecScale \div 10) >>

\* FeedbackAnalyzer.get_state_vector.  x / d is computed as x * (VecScale \div d),
\* exact because every divisor divides VecScale; time_delta is
\* max(last_update_time - (last_update_time - 60), 1.0), that is 60
get_state_vector(h) ==
    IF Len(h) = 0 THEN [i \in 1..10 |-> 0]
    ELSE
      LET current    == h[Len(h)]
          hasPrev    == Len(h) >= 2
          previous   == h[Len(h) - 1]
          time_delta == 60
          coverage_rate == IF hasPrev
              THEN (current.coverage - previous.coverage) * (VecScale \div (100 * time_delta))
              ELSE 0
          crash_rate == IF hasPrev
              THEN (current.unique_crashes - previous.unique_crashes) * (VecScale \div time_delta)
              ELSE 0
          path_rate == IF hasPrev
              THEN (current.paths_total - previous.paths_total) * (VecScale \div time_delta)
              ELSE 0
      IN << current.coverage * (VecScale \div (100 * 100)),
            coverage_rate,
            current.unique_crashes * (VecScale \div 100),
            crash_rate,
            current.execs_per_sec * (VecScale \div (100 * 1000)),
            current.paths_total * (VecScale \div 1000),
            path_rate,
            current.stability * (VecScale \div (100 * 100)),
            current.cycles_done * (VecScale \div 10),
            current.pending_favs * (VecScale \div 100) >>

Max2(a, b) == IF a > b THEN a ELSE b

\* mutant of compute_reward: the speed bonus is not capped at 1
compute_reward_uncapped_speed(h) ==
    IF Len(h) < 2 THEN 0
    ELSE
      LET current  == h[Len(h)]
          previous == h[Len(h) - 1]
      IN  (current.coverage - previous.coverage) * ((10 * RewardScale) \div 100)
        + (current.unique_crashes - previous.unique_crashes) * (50 * RewardScale)
        + (current.paths_total - previous.paths_total) * (1 * RewardScale)
        + (current.execs_per_sec * (RewardScale \div 1000)) \div (100 * 2)
        + (current.stability * RewardScale) \div (100 * 100 * 2)

\* mutant of compute_reward: only gains are rewarded (a loss of coverage or of
\* crashes counts as 0)
compute_reward_gains_only(h) ==
    IF Len(h) < 2 THEN 0
    ELSE
      LET current  == h[Len(h)]
          previous == h[Len(h) - 1]
      IN  Max2(current.coverage - previous.coverage, 0) * ((10 * RewardScale) \div 100)
        + Max2(current.unique_crashes - previous.unique_crashes, 0) * (50 * RewardScale)
        + (current.paths_total - previous.paths_total) * (1 * RewardScale)
        + (Min2(current.execs_per_sec, 100 * 1000) * RewardScale) \div (100 * 1000 * 2)
        + (current.stability * RewardScale) \div (100 * 100 * 2)

\* FeedbackAnalyzer.compute_reward, in units of 1/RewardScale.
\* min(execs_per_sec / 1000, 1) is computed as min(execs_per_sec, 1000) / 1000
compute_reward(h) ==
    IF Len(h) < 2 THEN 0
    ELSE
      LET current  == h[Len(h)]
          previous == h[Len(h) - 1]
          coverage_reward  == (current.coverage - previous.coverage) * ((10 * RewardScale) \div 100)
          crash_reward     == (current.unique_crashes - previous.unique_crashes) * (50 * RewardScale)
          path_reward      == (current.paths_total - previous.paths_total) * (1 * RewardScale)
          speed_reward     == (Min2(current.execs_per_sec, 100 * 1000) * RewardScale)
                                  \div (100 * 1000 * 2)
          stability_reward == (current.stability * RewardScale) \div (100 * 100 * 2)
      IN coverage_reward + crash_reward + path_reward + speed_reward + stability_reward

\* FeedbackAnalyzer.get_state_and_reward
get_state_and_reward(h) == <<get_state_vector(h), compute_reward(h)>>

\* mutant of is_done: the comparison with the oldest snapshot is strict
is_done_strictly_worse(h, H) ==
    IF Len(h) = 0 THEN FALSE
    ELSE LET current == h[Len(h)]
             first   == h[1]
         IN /\ Len(h) >= H
            /\ current.coverage < first.coverage
            /\ current.paths_total < first.paths_total

\* FeedbackAnalyzer.is_done
is_done(h, H) ==
    IF Len(h) = 0 THEN FALSE
    ELSE LET current == h[Len(h)]
             first   == h[1]
         IN /\ Len(h) >= H
            /\ current.coverage <= first.coverage
            /\ current.paths_total <= first.paths_total

\* FuzzingMetrics.to_dict: the ten keys it writes (unique_hangs and
\* paths_found among them; pending_favs, pending_total, levels, last_crash,
\* last_hang and last_path are not written)
to_dict(m) ==
    [coverage |-> m.coverage, unique_crashes |-> m.unique_crashes,
     unique_hangs |-> m.unique_hangs, total_execs |-> m.total_execs,
     execs_per_sec |-> m.execs_per_sec, paths_total |-> m.paths_total,
     paths_found |-> m.paths_found, bitmap_cvg |-> m.bitmap_cvg,
     stability |-> m.stability, cycles_done |-> m.cycles_done]

\* FeedbackAnalyzer.save_history: what json.dump writes, a list of dictionaries
\* (json writes and reads every finite number as it is)
save_history(h) == [i \in 1..Len(h) |-> to_dict(h[i])]

\* load_history, lines 352-355: a new FuzzingMetrics() with every key of the
\* dictionary set on it
from_dict(data) ==
    [k \in DOMAIN NewMetrics |-> IF k \in DOMAIN data THEN data[k] ELSE NewMetrics[k]]

\* FeedbackAnalyzer.load_history: metrics_history.clear() and one append per
\* dictionary of the list
load_history(history_data) == [i \in 1..Len(history_data) |-> from_dict(history_data[i])]

----------------------------------------------------------------------------
(* PPOAgent *)

\* the network's parameters: a finite value (numbered by the optimisations
\* that produced it) or NaN
InitParams == [finite |-> TRUE, version |-> 0]
NaNParams  == [finite |-> FALSE, version |-> 0]

\* the agent as one value
Agent ==
    [params |-> params, states |-> states, actions |-> actions, log_probs |-> log_probs,
     values |-> values, rewards |-> rewards, dones |-> dones]

SetAgent(ag) ==
    /\ params' = ag.params
    /\ states' = ag.states
    /\ actions' = ag.actions
    /\ log_probs' = ag.log_probs
    /\ values' = ag.values
    /\ rewards' = ag.rewards
    /\ dones' = ag.dones

\* PPONetwork.get_action on NaN parameters: softmax gives NaN probabilities and
\* Categorical(action_probs) raises ValueError
get_action_raises(ag) == ~ag.params.finite

\* PPOAgent.select_action, the network having sampled action a with
\* log-probability lp and value estimate v
select_action(ag, s, a, lp, v) ==
    [ag EXCEPT !.states = Append(@, s), !.actions = Append(@, a),
               !.log_probs = Append(@, lp), !.values = Append(@, v)]

\* PPOAgent.store_transition
store_transition(ag, r, d) ==
    [ag EXCEPT !.rewards = Append(@, r), !.dones = Append(@, d)]

\* PPOAgent.clear_buffer
clear_buffer(ag) ==
    [ag EXCEPT !.states = << >>, !.actions = << >>, !.log_probs = << >>,
               !.values = << >>, !.rewards = << >>, !.dones = << >>]

\* mutant of update_is_noop: the early return is taken below the batch size
update_is_noop_below_batch(ag) == Len(ag.states) < 32

\* PPOAgent.update, line 280: the early return
update_is_noop(ag) == Len(ag.states) = 0

\* how the losses of one update() turn out:
\*   "finite"          every mini-batch loss is finite
\*   "nan_last_batch"  the first NaN or Inf loss is that of the last mini-batch
\*                     of the last epoch
\*   "nan_midway"      a NaN or Inf loss comes before the last mini-batch
LossOutcomes == {"finite", "nan_last_batch", "nan_midway"}

\* PPOAgent.update, lines 308-353: loss.backward(), clip_grad_norm_ and
\* optimizer.step() run whatever the loss is; a NaN or Inf loss gives NaN
\* gradients, and the step writes NaN into the parameters
params_after_training(p, loss) ==
    IF p.finite /\ loss = "finite" THEN [finite |-> TRUE, version |-> p.version + 1]
    ELSE NaNParams

\* PPOAgent.update, line 321: evaluate_actions on NaN parameters builds
\* Categorical(NaN), which raises ValueError; that is the mini-batch after a
\* NaN step, or the first one when the parameters were NaN already
update_raises(ag, loss) ==
    /\ ~update_is_noop(ag)
    /\ (~ag.params.finite \/ loss = "nan_midway")

\* PPOAgent.update as a whole; when it raises, clear_buffer (line 356) is not
\* reached
PPOAgent_update(ag, loss) ==
    IF update_is_noop(ag) THEN ag
    ELSE IF update_raises(ag, loss) THEN [ag EXCEPT !.params = NaNParams]
    ELSE clear_buffer([ag EXCEPT !.params = params_after_training(@, loss)])

\* what PPOAgent.update returns: {} ("empty"), or the stats dictionary, whose
\* losses are NaN when the loss was; "raised" when an exception left it
PPOAgent_update_ret(ag, loss) ==
    IF update_is_noop(ag) THEN "empty"
    ELSE IF update_raises(ag, loss) THEN "raised"
    ELSE IF loss = "finite" THEN "stats" ELSE "nan"

\* PPONetwork.forward: linear layers and ReLU only, so the logits and the value
\* are a function of the parameters and the input and of nothing else; the
\* function itself is left uninterpreted (the pair of its arguments)
forward(p, s) == <<p.version, s>>

\* PPONetwork.get_action(state, deterministic=True): the argmax of the softmax
\* of the logits and its log-probability; Categorical raises on NaN
get_action_deterministic(p, s) ==
    IF p.finite THEN [raises |-> FALSE, action_and_log_prob |-> forward(p, s)]
    ELSE [raises |-> TRUE, action_and_log_prob |-> forward(InitParams, s)]

\* PPOAgent.save: what torch.save writes.  optimizer_state_dict is written too;
\* the model keeps no optimizer state (get_action does not read it)
PPOAgent_save(ag) == [network_state_dict |-> ag.params]

\* mutant of PPOAgent_load: the network is left as a new PPONetwork
PPOAgent_load_reinitialized(ag, checkpoint) == [ag EXCEPT !.params = InitParams]

\* PPOAgent.load: network.load_state_dict(checkpoint['network_state_dict'])
PPOAgent_load(ag, checkpoint) == [ag EXCEPT !.params = checkpoint.network_state_dict]

\* ---- the arithmetic of compute_gae and of the policy loss.  A float is an
\* exact fraction <<numerator, denominator>> with a positive denominator, in
\* lowest terms
RECURSIVE GCD(_, _)
GCD(a, b) == IF b = 0 THEN a ELSE GCD(b, a % b)

Abs(x) == IF x < 0 THEN -x ELSE x

Rat(n, d) == LET g == GCD(Abs(n), d) IN <<n \div g, d \div g>>
RatInt(n) == <<n, 1>>
RatAdd(x, y) ==
    LET g == GCD(x[2], y[2])
    IN  Rat(x[1] * (y[2] \div g) + y[1] * (x[2] \div g), (x[2] \div g) * y[2])
RatNeg(x) == <<-x[1], x[2]>>
RatMul(x, y) ==
    LET g1 == GCD(Abs(x[1]), y[2])
        g2 == GCD(Abs(y[1]), x[2])
    IN  Rat((x[1] \div g1) * (y[1] \div g2), (x[2] \div g2) * (y[2] \div g1))

\* PPOAgent.__init__: the defaults of gamma and gae_lambda (the controller
\* passes the same values when its configuration names none)
DefaultGamma == <<99, 100>>
DefaultGaeLambda == <<95, 100>>

\* mutant of next_non_terminal: the terminal flag is not read
next_non_terminal_ignores_done(done) == 1

\* compute_gae, lines 256 and 259: next_non_terminal = 1.0 - dones[t]
next_non_terminal(done) == IF done THEN 0 ELSE 1

\* mutant of next_value_t: the last index takes no bootstrap value
next_value_t_without_bootstrap(ag, next_value, t) ==
    IF t = Len(ag.rewards) THEN 0 ELSE ag.values[t + 1]

\* compute_gae, lines 255-260: the value of the state after index t, where
\* values = self.values + [next_value]
next_value_t(ag, next_value, t) ==
    IF t = Len(ag.rewards) THEN next_value ELSE ag.values[t + 1]

\* compute_gae, lines 254-263: the loop over t from the last index to the first
\* (indices from 1), last_gae being the advantage of index t + 1
RECURSIVE gae_loop(_, _, _, _, _, _, _)
gae_loop(ag, next_value, gamma, gae_lambda, t, last_gae, advantages) ==
    IF t = 0 THEN advantages
    ELSE LET nnt == RatInt(next_non_terminal(ag.dones[t]))
             delta ==
                 RatAdd(RatAdd(RatInt(ag.rewards[t]),
                               RatMul(RatMul(gamma, RatInt(next_value_t(ag, next_value, t))),
                                      nnt)),
                        RatNeg(RatInt(ag.values[t])))
             gae == RatAdd(delta,
                           RatMul(RatMul(RatMul(gamma, gae_lambda), nnt), last_gae))
         IN  gae_loop(ag, next_value, gamma, gae_lambda, t - 1, gae,
                      [advantages EXCEPT ![t] = gae])

\* PPOAgent.compute_gae of an agent built with the given gamma and gae_lambda;
\* rewards, values and next_value are whole numbers of one unit.  With fewer
\* rewards than values, advantages + values[:-1] raises ValueError
compute_gae(ag, next_value, gamma, gae_lambda) ==
    IF Len(ag.rewards) # Len(ag.values) THEN [raises |-> TRUE]
    ELSE LET advantages ==
                 gae_loop(ag, next_value, gamma, gae_lambda, Len(ag.rewards), RatInt(0),
                          [t \in 1..Len(ag.rewards) |-> RatInt(0)])
         IN  [raises |-> FALSE,
              advantages |-> advantages,
              returns |-> [t \in 1..Len(ag.rewards) |->
                              RatAdd(advantages[t], RatInt(ag.values[t]))]]

\* PPOAgent.__init__: the default of clip_epsilon
DefaultClipEpsilon == <<1, 5>>

RatLess(x, y) == x[1] * y[2] < y[1] * x[2]

\* torch.min of two elements
RatMin(x, y) == IF RatLess(y, x) THEN y ELSE x

\* mutant of clamp: the lower end of the range is 1
clamp_from_one(x, lo, hi) ==
    IF RatLess(x, RatInt(1)) THEN RatInt(1) ELSE IF RatLess(hi, x) THEN hi ELSE x

\* torch.clamp(x, lo, hi) of one element
clamp(x, lo, hi) == IF RatLess(x, lo) THEN lo ELSE IF RatLess(hi, x) THEN hi ELSE x

\* PPOAgent.update, lines 325-330, for one transition of the mini-batch: surr1,
\* surr2 and the element of torch.min(surr1, surr2) that policy_loss averages
policy_objective(ratio, advantage, clip_epsilon) ==
    LET surr1 == RatMul(ratio, advantage)
        surr2 == RatMul(clamp(ratio, RatAdd(RatInt(1), RatNeg(clip_epsilon)),
                              RatAdd(RatInt(1), clip_epsilon)),
                        advantage)
    IN  [surr1 |-> surr1, surr2 |-> surr2, objective |-> RatMin(surr1, surr2)]

----------------------------------------------------------------------------
(* MutationStrategySelector *)

\* len(MutationStrategy), and MutationStrategy.HAVOC_MEDIUM
NumStrategies == 8
HAVOC_MEDIUM == 5
Strategies == 0 .. (NumStrategies - 1)

NewStats == [times_selected |-> 0, coverage_gains |-> 0, crashes_found |-> 0, paths_found |-> 0]

Selector ==
    [strategy_stats |-> strategy_stats, current_strategy |-> current_strategy,
     strategy_history |-> strategy_history]

SetSelector(sel) ==
    /\ strategy_stats' = sel.strategy_stats
    /\ current_strategy' = sel.current_strategy
    /\ strategy_history' = sel.strategy_history

\* mutant of strategy_of: an out-of-range action is clamped to the nearest entry
strategy_of_clamped(action) ==
    IF action < 0 THEN 0 ELSE IF action >= NumStrategies THEN NumStrategies - 1 ELSE action

\* select_strategy, lines 73-77: the strategy an action stands for
strategy_of(action) ==
    IF action < 0 \/ action >= NumStrategies THEN HAVOC_MEDIUM ELSE action

\* mutant of select_strategy: a defaulted selection is not counted
select_strategy_uncounted_default(sel, action) ==
    LET strategy == strategy_of(action) IN
    [sel EXCEPT !.current_strategy = Some(strategy),
                !.strategy_history = Append(@, strategy),
                !.strategy_stats[strategy].times_selected =
                    IF action = strategy THEN @ + 1 ELSE @]

\* MutationStrategySelector.select_strategy
select_strategy(sel, action) ==
    LET strategy == strategy_of(action) IN
    [sel EXCEPT !.current_strategy = Some(strategy),
                !.strategy_history = Append(@, strategy),
                !.strategy_stats[strategy].times_selected = @ + 1]

\* mutant of update_strategy_stats: recording an outcome counts as a selection
update_strategy_stats_counting(sel, coverage_gain, crashes, paths) ==
    IF sel.current_strategy = None THEN sel
    ELSE LET c == sel.current_strategy[1] IN
         [sel EXCEPT !.strategy_stats[c].coverage_gains = @ + coverage_gain,
                     !.strategy_stats[c].crashes_found = @ + crashes,
                     !.strategy_stats[c].paths_found = @ + paths,
                     !.strategy_stats[c].times_selected = @ + 1]

\* MutationStrategySelector.update_strategy_stats (coverage_gain in hundredths)
update_strategy_stats(sel, coverage_gain, crashes, paths) ==
    IF sel.current_strategy = None THEN sel
    ELSE LET c == sel.current_strategy[1] IN
         [sel EXCEPT !.strategy_stats[c].coverage_gains = @ + coverage_gain,
                     !.strategy_stats[c].crashes_found = @ + crashes,
                     !.strategy_stats[c].paths_found = @ + paths]

\* MutationStrategySelector.reset_stats: every entry of strategy_stats is set
\* anew and strategy_history is cleared; current_strategy is not assigned
reset_stats(sel) ==
    [sel EXCEPT !.strategy_stats = [st \in Strategies |-> NewStats],
                !.strategy_history = << >>]

\* MutationStrategySelector.get_afl_mutation_config: the configs table
\* (splice_probability 0.8 in hundredths)
configs ==
    [st \in Strategies |->
       CASE st = 0 -> [deterministic_mode |-> TRUE, skip_deterministic |-> FALSE,
                       havoc_cycles |-> 0, splice_cycles |-> 0, focus_on |-> "bitflip"]
         [] st = 1 -> [deterministic_mode |-> TRUE, skip_deterministic |-> FALSE,
                       havoc_cycles |-> 0, splice_cycles |-> 0, focus_on |-> "byteflip"]
         [] st = 2 -> [deterministic_mode |-> TRUE, skip_deterministic |-> FALSE,
                       havoc_cycles |-> 0, splice_cycles |-> 0, focus_on |-> "arithmetic"]
         [] st = 3 -> [deterministic_mode |-> TRUE, skip_deterministic |-> FALSE,
                       havoc_cycles |-> 0, splice_cycles |-> 0, focus_on |-> "interesting"]
         [] st = 4 -> [deterministic_mode |-> FALSE, skip_deterministic |-> TRUE,
                       havoc_cycles |-> 64, splice_cycles |-> 0, havoc_stack_pow |-> 2]
         [] st = 5 -> [deterministic_mode |-> FALSE, skip_deterministic |-> TRUE,
                       havoc_cycles |-> 256, splice_cycles |-> 32, havoc_stack_pow |-> 4]
         [] st = 6 -> [deterministic_mode |-> FALSE, skip_deterministic |-> TRUE,
                       havoc_cycles |-> 1024, splice_cycles |-> 128, havoc_stack_pow |-> 7]
         [] OTHER  -> [deterministic_mode |-> FALSE, skip_deterministic |-> TRUE,
                       havoc_cycles |-> 64, splice_cycles |-> 512, splice_probability |-> 80]]

\* MutationStrategySelector.get_afl_mutation_config
get_afl_mutation_config(strategy) ==
    IF strategy \in DOMAIN configs THEN configs[strategy] ELSE configs[HAVOC_MEDIUM]

\* sum(stats['times_selected'] for stats in self.strategy_stats.values()),
\* over the strategies from st on
RECURSIVE SumTimesSelected(_, _)
SumTimesSelected(stats, st) ==
    IF st >= NumStrategies THEN 0
    ELSE stats[st].times_selected + SumTimesSelected(stats, st + 1)

\* MutationStrategySelector.get_strategy_distribution.  A probability is kept
\* exact, as <<numerator, denominator>>: times_selected / total_selections
get_strategy_distribution(sel) ==
    LET total_selections == SumTimesSelected(sel.strategy_stats, 0) IN
    IF total_selections = 0 THEN [st \in Strategies |-> <<0, 1>>]
    ELSE [st \in Strategies |-> <<sel.strategy_stats[st].times_selected, total_selections>>]

\* get_best_strategy, lines 267-271: the numerator of the score, in hundredths
score_numerator(stats) ==
    stats.coverage_gains * 1 + stats.crashes_found * 50 * 100 + stats.paths_found * 1 * 100

\* mutant of score_beats: a tie replaces the best so far
score_beats_or_ties(n1, t1, n2, t2) == n1 * t2 >= n2 * t1

\* get_best_strategy, line 273: score > best_score for the scores n1/t1 and
\* n2/t2 (t1, t2 > 0), compared exactly
score_beats(n1, t1, n2, t2) == n1 * t2 > n2 * t1

\* get_best_strategy, lines 261-275: the loop over MutationStrategy from st on;
\* best is None while best_score is -inf
RECURSIVE BestFrom(_, _, _, _)
BestFrom(stats, st, best_strategy, best) ==
    IF st >= NumStrategies THEN best_strategy
    ELSE IF stats[st].times_selected = 0 THEN BestFrom(stats, st + 1, best_strategy, best)
    ELSE IF best = None
              \/ score_beats(score_numerator(stats[st]), stats[st].times_selected,
                             score_numerator(stats[best[1]]), stats[best[1]].times_selected)
           THEN BestFrom(stats, st + 1, st, Some(st))
           ELSE BestFrom(stats, st + 1, best_strategy, best)

\* MutationStrategySelector.get_best_strategy
get_best_strategy(sel) == BestFrom(sel.strategy_stats, 0, HAVOC_MEDIUM, None)

----------------------------------------------------------------------------
(* FuzzingController *)

\* training_step, line 222: "Minimum batch size"
MinBatch == 32
\* experiment_config.get('history_size', 10)
DefaultHistorySize == 10

\* the value an operation's return is recorded as: val is what it returned,
\* update what the PPOAgent.update it called returned ("none": not called),
\* ckpt how the save_checkpoint it called ended ("none": not called)
Ret(val, update, ckpt) == [val |-> val, update |-> update, ckpt |-> ckpt]

\* mutant of update_due: the update waits for more than the minimum batch
update_due_above_batch(ag) == Len(ag.states) > MinBatch

\* training_step, line 222: is PPOAgent.update called?
update_due(ag) == Len(ag.states) >= MinBatch

\* mutant of training_step: a strategy is selected before the poll is looked at
training_step_selects_before_poll(c1, c2, a, lp, v, loss) ==
    [result |-> "empty", update |-> "none", h |-> metrics_history,
     b |-> baseline_metrics, ag |-> Agent, sel |-> select_strategy(Selector, a),
     episodes |-> episodes, total_updates |-> total_updates]

\* FuzzingController.training_step.  c1 is the file as update() reads it, c2 as
\* line 211 reads it again; a, lp, v are the network's sample for this state;
\* loss tells how the optimisation's losses turn out.
\* result: "empty" (returned {}), "stats", or "raised" (an exception left it)
training_step(c1, c2, a, lp, v, loss) ==
    LET r == get_current_metrics(c1) IN
    IF r = None
      THEN [result |-> "empty", update |-> "none", h |-> metrics_history,
            b |-> baseline_metrics, ag |-> Agent, sel |-> Selector,
            episodes |-> episodes, total_updates |-> total_updates]
      ELSE
        LET h1 == history_push(metrics_history, r[1], history_size)
            b1 == baseline_set(baseline_metrics, r[1])
            sr == get_state_and_reward(h1)
        IN IF get_action_raises(Agent)
             THEN [result |-> "raised", update |-> "none", h |-> h1, b |-> b1,
                   ag |-> Agent, sel |-> Selector,
                   episodes |-> episodes, total_updates |-> total_updates]
             ELSE
               LET ag1  == select_action(Agent, sr[1], a, lp, v)
                   sel1 == select_strategy(Selector, a)
                   done == is_done(h1, history_size)
                   ag2  == store_transition(ag1, sr[2], done)
                   cm   == get_current_metrics(c2)
                   sel2 == IF cm # None /\ Len(h1) >= 2
                             THEN LET prev == h1[Len(h1) - 1] IN
                                  update_strategy_stats(sel1,
                                      cm[1].coverage - prev.coverage,
                                      cm[1].unique_crashes - prev.unique_crashes,
                                      cm[1].paths_total - prev.paths_total)
                             ELSE sel1
                   upd  == update_due(ag2)
                   ag3  == IF upd THEN PPOAgent_update(ag2, loss) ELSE ag2
               IN IF upd /\ update_raises(ag2, loss)
                    THEN \* the exception leaves training_step at line 223
                         [result |-> "raised", update |-> "raised",
                          h |-> h1, b |-> b1, ag |-> ag3, sel |-> sel2,
                          episodes |-> episodes, total_updates |-> total_updates]
                    ELSE
                  [result |-> "stats",
                   update |-> IF upd THEN PPOAgent_update_ret(ag2, loss) ELSE "none",
                   h |-> h1, b |-> b1, ag |-> ag3, sel |-> sel2,
                   episodes |-> IF done THEN episodes + 1 ELSE episodes,
                   total_updates |-> IF upd THEN total_updates + 1 ELSE total_updates]

\* what a loop iteration without a due training step leaves
no_training_step ==
    [result |-> "skipped", update |-> "none", h |-> metrics_history,
     b |-> baseline_metrics, ag |-> Agent, sel |-> Selector,
     episodes |-> episodes, total_updates |-> total_updates]

SetLearning(ts) ==
    /\ metrics_history' = ts.h
    /\ baseline_metrics' = ts.b
    /\ SetAgent(ts.ag)
    /\ SetSelector(ts.sel)
    /\ episodes' = ts.episodes
    /\ total_updates' = ts.total_updates

\* mutant of duration_reached: the loop runs on at the configured duration
duration_reached_late == now > MaxDurationTicks

\* run(), lines 297-304: does this iteration break out of the loop?
duration_reached == now >= MaxDurationTicks

\* run(), line 297: what keeps the loop going.  Nothing in the loop reads
\* self.fuzzer_process: the engine's exit is not looked at
loop_continues == running

\* start_fuzzer: "started"; "died" (poll() is not None after the 5 s wait);
\* "raised" (Popen raised).  run() returns at once on the last two.
StartFuzzer(outcome) ==
    /\ pc = "idle"
    /\ lastOp' = "start_fuzzer"
    /\ IF outcome = "started"
         THEN /\ fuzzer_process' = "alive"
              /\ running' = TRUE
              /\ pc' = "loop"
              /\ ret' = Ret("True", "none", "none")
         ELSE /\ fuzzer_process' = (IF outcome = "died" THEN "dead" ELSE "none")
              /\ running' = FALSE
              /\ pc' = "done"
              /\ ret' = Ret("False", "none", "none")
    /\ now' = 0 /\ last_update' = 0 /\ last_checkpoint' = 0
    /\ UNCHANGED <<faVars, agVars, selVars, episodes, total_updates, training_stats,
                   polled, lastRead, events, current_config, selector_calls, agent_file, computed, history_file>>

\* the engine process ends by itself while run() loops
EngineExits ==
    /\ pc = "loop"
    /\ fuzzer_process = "alive"
    /\ fuzzer_process' = "dead"
    /\ lastOp' = "engine_exits"
    /\ ret' = Ret("none", "none", "none")
    /\ UNCHANGED <<faVars, agVars, selVars, running, pc, now, last_update, last_checkpoint,
                   episodes, total_updates, training_stats, polled, lastRead, events,
                   current_config, selector_calls, agent_file, computed, history_file>>

\* KeyboardInterrupt while run() loops (lines 330-331)
Interrupt ==
    /\ pc = "loop"
    /\ pc' = "finally"
    /\ lastOp' = "interrupt"
    /\ ret' = Ret("none", "none", "none")
    /\ UNCHANGED <<faVars, agVars, selVars, fuzzer_process, running, now, last_update,
                   last_checkpoint, episodes, total_updates, training_stats, polled,
                   lastRead, events, current_config, selector_calls, agent_file, computed, history_file>>

\* one iteration of run()'s while loop (lines 297-328), the loop condition included
LoopIteration(c1, c2, a, lp, v, loss, ckptOk) ==
    /\ pc = "loop"
    /\ lastOp' = "iteration"
    /\ UNCHANGED <<history_size, fuzzer_process, running, polled, lastRead, current_config,
                   selector_calls, agent_file, computed, history_file>>
    /\ IF ~loop_continues \/ duration_reached
         THEN /\ pc' = "finally"
              /\ ret' = Ret("break", "none", "none")
              /\ UNCHANGED <<metrics_history, baseline_metrics, agVars, selVars, now,
                             last_update, last_checkpoint, episodes, total_updates,
                             training_stats, events>>
         ELSE
           LET stepDue == now - last_update >= UpdateIntervalTicks
               ts      == IF stepDue THEN training_step(c1, c2, a, lp, v, loss)
                          ELSE no_training_step
               ckDue   == now - last_checkpoint >= CheckpointIntervalTicks
           IN /\ SetLearning(ts)
              /\ IF ts.result = "raised"
                   THEN \* caught by "except Exception" (line 333)
                        /\ pc' = "finally"
                        /\ ret' = Ret("raised", ts.update, "none")
                        /\ UNCHANGED <<now, last_update, last_checkpoint, training_stats,
                                       events>>
                   ELSE
                     /\ training_stats' =
                            (IF ts.result = "stats" THEN training_stats + 1 ELSE training_stats)
                     /\ last_update' = (IF stepDue THEN now ELSE last_update)
                     /\ IF ckDue /\ ~ckptOk
                          THEN \* save_checkpoint raises; caught by "except Exception"
                               /\ pc' = "finally"
                               /\ ret' = Ret(ts.result, ts.update, "failed")
                               /\ UNCHANGED <<now, last_checkpoint, events>>
                          ELSE /\ pc' = "loop"
                               /\ ret' = Ret(ts.result, ts.update,
                                             IF ckDue THEN "ok" ELSE "none")
                               /\ events' = (IF ckDue THEN Append(events, "checkpoint_periodic")
                                             ELSE events)
                               /\ last_checkpoint' = (IF ckDue THEN now ELSE last_checkpoint)
                               /\ now' = now + 1     \* time.sleep(10)

\* stop_fuzzer (lines 164-182): "graceful", "forced" (wait timed out, SIGKILL)
\* or "error" (killpg or wait raised, caught and logged)
stop_fuzzer_engine(outcome) ==
    IF fuzzer_process = "none" \/ ~running THEN fuzzer_process
    ELSE IF outcome = "error" THEN fuzzer_process ELSE "dead"
stop_fuzzer_running == IF fuzzer_process = "none" \/ ~running THEN running ELSE FALSE

\* run()'s finally block (lines 336-343): stop_fuzzer, save_checkpoint, print_summary
Finally(stopOutcome, ckptOk) ==
    /\ pc = "finally"
    /\ lastOp' = "finally"
    /\ fuzzer_process' = stop_fuzzer_engine(stopOutcome)
    /\ running' = stop_fuzzer_running
    /\ IF ckptOk
         THEN /\ events' = events \o <<"stop_fuzzer", "checkpoint_final", "summary">>
              /\ pc' = "done"
              /\ ret' = Ret("none", "none", "ok")
         ELSE \* save_checkpoint raises out of the finally block, and out of run()
              /\ events' = Append(events, "stop_fuzzer")
              /\ pc' = "raised"
              /\ ret' = Ret("raised", "none", "failed")
    /\ UNCHANGED <<faVars, agVars, selVars, now, last_update, last_checkpoint,
                   episodes, total_updates, training_stats, polled, lastRead,
                   current_config, selector_calls, agent_file, computed, history_file>>

----------------------------------------------------------------------------
(* The state after construction, and the specifications *)

InitObjects ==
    /\ metrics_history = << >>
    /\ baseline_metrics = None
    /\ params = InitParams
    /\ states = << >> /\ actions = << >> /\ log_probs = << >>
    /\ values = << >> /\ rewards = << >> /\ dones = << >>
    /\ strategy_stats = [st \in Strategies |-> NewStats]
    /\ current_strategy = None
    /\ strategy_history = << >>
    /\ fuzzer_process = "none"
    /\ running = FALSE
    /\ now = 0 /\ last_update = 0 /\ last_checkpoint = 0
    /\ episodes = 0 /\ total_updates = 0 /\ training_stats = 0
    /\ lastOp = "init"
    /\ ret = Ret("none", "none", "none")
    /\ polled = << >>
    /\ lastRead = NoFile
    /\ events = << >>
    /\ current_config = None
    /\ agent_file = None
    /\ selector_calls = << >>
    /\ computed = None
    /\ history_file = None

\* ---- the controller: FuzzingController(...).run()

\* what the loop reads and samples in the controller's specification: one
\* readable file content and one sampled action, so that the buffer has one
\* content per length and the 32 transitions of MinBatch are reached
LoopContents == {FileSelfTest, NoFile, FileGarbled}
LoopActions == {HAVOC_MEDIUM}
LoopLogProbs == {-2079}
LoopValues == {0}

Init ==
    /\ InitObjects
    /\ history_size = DefaultHistorySize
    /\ pc = "idle"

Next ==
    \/ \E outcome \in {"started", "died", "raised"} : StartFuzzer(outcome)
    \/ EngineExits
    \/ Interrupt
    \/ \E c1 \in LoopContents, c2 \in LoopContents, a \in LoopActions,
          lp \in LoopLogProbs, v \in LoopValues, loss \in LossOutcomes, ckptOk \in BOOLEAN :
          LoopIteration(c1, c2, a, lp, v, loss, ckptOk)
    \/ \E stopOutcome \in {"graceful", "forced", "error"}, ckptOk \in BOOLEAN :
          Finally(stopOutcome, ckptOk)

Spec == Init /\ [][Next]_vars

\* ---- the decision step alone: FuzzingController.training_step called MaxSteps
\* times on a controller whose engine rewrites fuzzer_stats between any two reads
StepContents == {FileScenarioA, FileScenarioB, NoFile}
StepActions == {0, HAVOC_MEDIUM}

TrainingStep(c1, c2, a, lp, v, loss) ==
    /\ Len(states) < MaxSteps
    /\ lastOp' = "training_step"
    /\ LET ts == training_step(c1, c2, a, lp, v, loss)
       IN  /\ SetLearning(ts)
           /\ ret' = Ret(ts.result, ts.update, "none")
    /\ UNCHANGED <<history_size, fuzzer_process, running, pc, now, last_update,
                   last_checkpoint, training_stats, polled, lastRead, events,
                   current_config, selector_calls, agent_file, computed, history_file>>

InitStep ==
    /\ InitObjects
    /\ history_size = DefaultHistorySize
    /\ pc = "none"

NextStep ==
    \E c1 \in StepContents, c2 \in StepContents, a \in StepActions,
       lp \in LoopLogProbs, v \in LoopValues, loss \in LossOutcomes :
       TrainingStep(c1, c2, a, lp, v, loss)

SpecStep == InitStep /\ [][NextStep]_vars

\* ---- the analyzer alone: FeedbackAnalyzer(output_dir, history_size), polled

\* one FeedbackAnalyzer.update() call, the file holding this content
Poll(content) ==
    /\ Len(polled) < MaxPolls \/ ~FeedbackAnalyzer_update_ret(content)
    /\ FeedbackAnalyzer_update(content)
    /\ lastOp' = "FeedbackAnalyzer.update"
    /\ ret' = Ret(IF FeedbackAnalyzer_update_ret(content) THEN "True" ELSE "False",
                  "none", "none")
    /\ lastRead' = content
    /\ polled' = (IF FeedbackAnalyzer_update_ret(content)
                    THEN Append(polled, get_current_metrics(content)[1]) ELSE polled)
    /\ UNCHANGED <<history_size, agVars, selVars, ctlVars, events, current_config,
                   selector_calls, agent_file, computed, history_file>>

InitTelemetry ==
    /\ InitObjects
    /\ history_size = HistorySize
    /\ pc = "none"

NextTelemetry == \E content \in FileContents : Poll(content)

SpecTelemetry == InitTelemetry /\ [][NextTelemetry]_vars

\* ---- the analyzer alone, its history being saved to and loaded from one path
\* between polls
HistoryContents == {FileSelfTest, FileScenarioB}

\* analyzer.save_history(filepath)
SaveHistory ==
    /\ lastOp' = "save_history"
    /\ history_file' = Some(save_history(metrics_history))
    /\ ret' = Ret("none", "none", "none")
    /\ UNCHANGED <<faVars, agVars, selVars, ctlVars, polled, lastRead, events,
                   current_config, selector_calls, agent_file, computed>>

\* analyzer.load_history(filepath); open() raises when the file is not there
LoadHistory ==
    /\ lastOp' = "load_history"
    /\ IF history_file = None
         THEN /\ UNCHANGED metrics_history
              /\ ret' = Ret("raised", "none", "none")
         ELSE /\ metrics_history' = load_history(history_file[1])
              /\ ret' = Ret("none", "none", "none")
    /\ UNCHANGED <<history_size, baseline_metrics, agVars, selVars, ctlVars, polled,
                   lastRead, events, current_config, selector_calls, agent_file, computed,
                   history_file>>

NextHistory ==
    \/ \E content \in HistoryContents : Poll(content)
    \/ SaveHistory
    \/ LoadHistory

SpecHistory == InitTelemetry /\ [][NextHistory]_vars

\* ---- the agent alone: PPOAgent(state_dim=10, action_dim=8), called as its
\* callers call it: select_action and store_transition in pairs, update between pairs

AgentStateVectors ==
    {get_state_vector(<< >>), get_state_vector(<<parse_fuzzer_stats(FileSelfTest)[1]>>)}
AgentActions == {NumStrategies - 1}
AgentLogProbs == {-2079}
AgentValues == {0, 1}
AgentRewards == {0, 2114800}

AgSelectAction(s, a, lp, v) ==
    /\ Len(states) < MaxBuffer
    /\ Len(rewards) = Len(states)
    /\ lastOp' = "PPOAgent.select_action"
    /\ IF get_action_raises(Agent)
         THEN /\ UNCHANGED agVars
              /\ ret' = Ret("raised", "none", "none")
         ELSE /\ SetAgent(select_action(Agent, s, a, lp, v))
              /\ ret' = Ret("action", "none", "none")
    /\ UNCHANGED <<faVars, selVars, ctlVars, polled, lastRead, events, current_config,
                   selector_calls, agent_file, computed, history_file>>

AgStoreTransition(r, d) ==
    /\ Len(rewards) < Len(states)
    /\ lastOp' = "PPOAgent.store_transition"
    /\ SetAgent(store_transition(Agent, r, d))
    /\ ret' = Ret("none", "none", "none")
    /\ UNCHANGED <<faVars, selVars, ctlVars, polled, lastRead, events, current_config,
                   selector_calls, agent_file, computed, history_file>>

AgUpdate(loss) ==
    /\ Len(rewards) = Len(states)
    /\ params.version < MaxUpdates
    /\ lastOp' = "PPOAgent.update"
    /\ SetAgent(PPOAgent_update(Agent, loss))
    /\ ret' = Ret(PPOAgent_update_ret(Agent, loss), "none", "none")
    /\ UNCHANGED <<faVars, selVars, ctlVars, polled, lastRead, events, current_config,
                   selector_calls, agent_file, computed, history_file>>

\* agent.save(filepath)
AgSave ==
    /\ lastOp' = "PPOAgent.save"
    /\ agent_file' = Some(PPOAgent_save(Agent))
    /\ ret' = Ret("none", "none", "none")
    /\ UNCHANGED <<faVars, agVars, selVars, ctlVars, polled, lastRead, events, current_config,
                   selector_calls, computed, history_file>>

\* agent.load(filepath); torch.load raises when the file is not there
AgLoad ==
    /\ lastOp' = "PPOAgent.load"
    /\ IF agent_file = None
         THEN /\ UNCHANGED agVars
              /\ ret' = Ret("raised", "none", "none")
         ELSE /\ SetAgent(PPOAgent_load(Agent, agent_file[1]))
              /\ ret' = Ret("none", "none", "none")
    /\ UNCHANGED <<faVars, selVars, ctlVars, polled, lastRead, events, current_config,
                   selector_calls, agent_file, computed, history_file>>

InitAgent ==
    /\ InitObjects
    /\ history_size = DefaultHistorySize
    /\ pc = "none"

NextAgent ==
    \/ \E s \in AgentStateVectors, a \in AgentActions, lp \in AgentLogProbs, v \in AgentValues :
          AgSelectAction(s, a, lp, v)
    \/ \E r \in AgentRewards, d \in BOOLEAN : AgStoreTransition(r, d)
    \/ \E loss \in LossOutcomes : AgUpdate(loss)
    \/ AgSave
    \/ AgLoad

SpecAgent == InitAgent /\ [][NextAgent]_vars

\* ---- compute_gae alone: a PPOAgent whose buffer its callers fill, select_action
\* and store_transition in pairs, and whose compute_gae is called on it
GaeStateVectors == {get_state_vector(<< >>)}
GaeValues == {0, 1}
GaeRewards == {0, 1}
Gammas == {DefaultGamma, <<1, 2>>}
GaeLambdas == {DefaultGaeLambda, <<1, 1>>}

\* PPOAgent(gamma=gamma, gae_lambda=gae_lambda).compute_gae(next_value) on the
\* buffer as it is
AgComputeGae(next_value, gamma, gae_lambda) ==
    /\ lastOp' = "PPOAgent.compute_gae"
    /\ computed' = Some([next_value |-> next_value, gamma |-> gamma,
                         gae_lambda |-> gae_lambda,
                         result |-> compute_gae(Agent, next_value, gamma, gae_lambda)])
    /\ ret' = Ret(IF Len(rewards) # Len(values) THEN "raised" ELSE "advantages",
                  "none", "none")
    /\ UNCHANGED <<faVars, agVars, selVars, ctlVars, polled, lastRead, events,
                   current_config, selector_calls, agent_file, history_file>>

NextGae ==
    \/ \E s \in GaeStateVectors, a \in AgentActions, lp \in AgentLogProbs, v \in GaeValues :
          AgSelectAction(s, a, lp, v)
    \/ \E r \in GaeRewards, d \in BOOLEAN : AgStoreTransition(r, d)
    \/ \E next_value \in GaeValues, gamma \in Gammas, gae_lambda \in GaeLambdas :
          AgComputeGae(next_value, gamma, gae_lambda)

SpecGae == InitAgent /\ [][NextGae]_vars

\* ---- the clipped objective alone: lines 325-330 of PPOAgent.update applied to
\* one transition, whose probability ratio exp(log_prob - old_log_prob) and
\* normalised advantage are given
Ratios ==
    {<<1, 2>>, <<7, 10>>, <<79, 100>>, <<4, 5>>, <<81, 100>>, <<9, 10>>, <<1, 1>>,
     <<11, 10>>, <<119, 100>>, <<6, 5>>, <<121, 100>>, <<13, 10>>, <<2, 1>>}
Advantages == {Rat(n, 2) : n \in (-MaxAdvantageHalves)..MaxAdvantageHalves}

PolicyObjective(ratio, advantage) ==
    /\ lastOp' = "PPOAgent.update.policy_objective"
    /\ computed' = Some([ratio |-> ratio, advantage |-> advantage,
                         result |-> policy_objective(ratio, advantage, DefaultClipEpsilon)])
    /\ ret' = Ret("none", "none", "none")
    /\ UNCHANGED <<faVars, agVars, selVars, ctlVars, polled, lastRead, events,
                   current_config, selector_calls, agent_file, history_file>>

NextObjective == \E ratio \in Ratios, advantage \in Advantages : PolicyObjective(ratio, advantage)

SpecObjective == InitAgent /\ [][NextObjective]_vars

\* ---- the selector alone: MutationStrategySelector(), called directly and
\* through the AFLCustomMutator that owns it

SelectActions == {-1, 0, NumStrategies}
MutatorActions == {NumStrategies - 1, 999}
\* coverage_gain (in hundredths), crashes, paths
Outcomes == {<<0, 1, 0>>, <<0, 2, 0>>, <<-50, 0, 0>>}

CountCalls(kind) ==
    Cardinality({i \in DOMAIN selector_calls : selector_calls[i][1] = kind})

\* selector.select_strategy(action)
SelSelectStrategy(action) ==
    /\ CountCalls("select") < MaxSelections
    /\ lastOp' = "select_strategy"
    /\ SetSelector(select_strategy(Selector, action))
    /\ ret' = Ret("strategy", "none", "none")
    /\ selector_calls' = Append(selector_calls, <<"select", action, 0, 0>>)
    /\ UNCHANGED <<faVars, agVars, ctlVars, polled, lastRead, events, current_config,
                   agent_file, computed, history_file>>

\* AFLCustomMutator.set_strategy(action)
SetStrategy(action) ==
    /\ CountCalls("select") < MaxSelections
    /\ lastOp' = "set_strategy"
    /\ SetSelector(select_strategy(Selector, action))
    /\ current_config' = Some(get_afl_mutation_config(strategy_of(action)))
    /\ ret' = Ret("none", "none", "none")
    /\ selector_calls' = Append(selector_calls, <<"select", action, 0, 0>>)
    /\ UNCHANGED <<faVars, agVars, ctlVars, polled, lastRead, events, agent_file, computed, history_file>>

\* selector.update_strategy_stats(coverage_gain, crashes, paths)
SelUpdateStrategyStats(o) ==
    /\ CountCalls("update") < MaxOutcomes
    /\ lastOp' = "update_strategy_stats"
    /\ SetSelector(update_strategy_stats(Selector, o[1], o[2], o[3]))
    /\ ret' = Ret("none", "none", "none")
    /\ selector_calls' = Append(selector_calls, <<"update", o[1], o[2], o[3]>>)
    /\ UNCHANGED <<faVars, agVars, ctlVars, polled, lastRead, events, current_config,
                   agent_file, computed, history_file>>

InitSelector ==
    /\ InitObjects
    /\ history_size = DefaultHistorySize
    /\ pc = "none"

NextSelector ==
    \/ \E action \in SelectActions : SelSelectStrategy(action)
    \/ \E action \in MutatorActions : SetStrategy(action)
    \/ \E o \in Outcomes : SelUpdateStrategyStats(o)

SpecSelector == InitSelector /\ [][NextSelector]_vars

\* ---- the selector alone, its statistics being reset by its owner at most
\* MaxResets times among the other calls
ResetSelectActions == {0, NumStrategies}
ResetOutcomes == {<<0, 1, 0>>}

\* selector.reset_stats()
SelResetStats ==
    /\ CountCalls("reset") < MaxResets
    /\ lastOp' = "reset_stats"
    /\ SetSelector(reset_stats(Selector))
    /\ ret' = Ret("none", "none", "none")
    /\ selector_calls' = Append(selector_calls, <<"reset", 0, 0, 0>>)
    /\ UNCHANGED <<faVars, agVars, ctlVars, polled, lastRead, events, current_config,
                   agent_file, computed, history_file>>

NextReset ==
    \/ \E action \in ResetSelectActions : SelSelectStrategy(action)
    \/ \E o \in ResetOutcomes : SelUpdateStrategyStats(o)
    \/ SelResetStats

SpecReset == InitSelector /\ [][NextReset]_vars

----------------------------------------------------------------------------
(* Claims *)

AllBuffersEmpty ==
    /\ states = << >> /\ actions = << >> /\ log_probs = << >>
    /\ values = << >> /\ rewards = << >> /\ dones = << >>

\* C1 as stated: every PPOAgent.update() call made with fewer than 32 stored
\* transitions returns the empty stats and leaves the six buffer sequences and
\* the parameters as they were.
C1_UpdateBelowBatchIsNoop ==
    [][(lastOp' = "PPOAgent.update" /\ Len(states) < MinBatch)
          => (ret'.val = "empty" /\ UNCHANGED agVars)]_vars

\* C1, amended: a PPOAgent.update() call made with no stored transition returns
\* the empty stats and leaves the six buffer sequences and the parameters as
\* they were; a call made with at least one stored transition (below 32 too)
\* is no such no-op: when it returns, it returns non-empty stats and has
\* emptied the six sequences.
C1_UpdateIsNoopOnlyWhenEmpty ==
    [][lastOp' = "PPOAgent.update"
          => IF Len(states) = 0
               THEN ret'.val = "empty" /\ UNCHANGED agVars
               ELSE /\ ret'.val # "empty"
                    /\ ret'.val # "raised" => AllBuffersEmpty']_vars

\* C1 witness: update() has just returned the empty stats on an empty buffer,
\* after an earlier optimisation had consumed stored transitions
C1_Witness ==
    /\ lastOp = "PPOAgent.update"
    /\ ret.val = "empty"
    /\ AllBuffersEmpty
    /\ params.finite /\ params.version = 1

\* C2: a training update whose loss is NaN or Inf leaves the parameters as they
\* were before the call, and the control loop goes on to later decision ticks.
C2_NaNUpdateKeepsParameters ==
    [][(lastOp' = "iteration" /\ ret'.update \in {"nan", "raised"})
          => (params' = params /\ params'.finite /\ pc' = "loop")]_vars

\* C3: a loop iteration that starts with the engine process dead leaves the
\* loop (to the finally block) and performs no decision step.
C3_DeadEngineLeavesLoop ==
    [][(pc = "loop" /\ running /\ fuzzer_process = "dead" /\ lastOp' = "iteration")
          => (pc' = "finally" /\ UNCHANGED <<faVars, agVars, selVars>>)]_vars

\* C4: once a run that entered the loop has left run(), the last things it did
\* are, in this order, the engine stop, the final checkpoint and the session
\* summary, and running is false.
C4_ExitStopsCheckpointsSummarises ==
    (pc \in {"done", "raised"} /\ lastOp = "finally")
        => /\ Len(events) >= 3
           /\ SubSeq(events, Len(events) - 2, Len(events))
                  = <<"stop_fuzzer", "checkpoint_final", "summary">>
           /\ running = FALSE

\* the keys the telemetry source must expose (spec.md, section 6)
RequiredKeys ==
    {"execs_done", "execs_per_sec", "paths_total", "saved_crashes", "saved_hangs",
     "bitmap_cvg", "stability", "cycles_done", "pending_favs", "pending_total"}

\* a file that is there, with a required key that is not
MissingRequiredKey(content) ==
    content.exists /\ \E k \in RequiredKeys : k \notin DOMAIN content.kv

\* C5: an update() that reads a record with a required key absent appends
\* nothing to the history and reports no data.
C5_PartialRecordIsDropped ==
    [][(lastOp' = "FeedbackAnalyzer.update" /\ MissingRequiredKey(lastRead'))
          => (metrics_history' = metrics_history /\ ret'.val = "False")]_vars

\* the last n elements of a sequence
LastN(sq, n) == SubSeq(sq, Len(sq) - n + 1, Len(sq))

\* C6: the history never holds more than history_size snapshots, and it is the
\* newest min(history_size, number appended) snapshots update() appended, in
\* the order they were appended: an append to a full history evicts exactly
\* the oldest.
C6_HistoryIsNewestWindow ==
    /\ Len(metrics_history) <= history_size
    /\ metrics_history = LastN(polled, Min2(history_size, Len(polled)))

\* C6 witness: more snapshots were appended than the history holds, and the
\* last update() failed
C6_Witness ==
    /\ Len(polled) > history_size
    /\ Len(metrics_history) = history_size
    /\ lastOp = "FeedbackAnalyzer.update" /\ ret.val = "False"

\* the reward formula of the specification, in units of 1/RewardScale, for a
\* newest snapshot cur and a second-newest snapshot prev
\*   10 dCoverage + 50 dCrashes + 1 dPaths + 0.5 min(throughput/1000, 1) + 0.5 stability/100
RewardFormula(cur, prev) ==
    LET throughputRatio == IF cur.execs_per_sec >= 100000 THEN RewardScale
                           ELSE (cur.execs_per_sec * RewardScale) \div 100000
    IN  (cur.coverage - prev.coverage) * (RewardScale \div 10)
      + (cur.unique_crashes - prev.unique_crashes) * 50 * RewardScale
      + (cur.paths_total - prev.paths_total) * RewardScale
      + throughputRatio \div 2
      + (cur.stability * (RewardScale \div 100)) \div 200

\* the spec's two-snapshot scenario is in the history, newest last
ScenarioInHistory ==
    /\ Len(metrics_history) >= 2
    /\ Last(metrics_history) = parse_fuzzer_stats(FileScenarioB)[1]
    /\ metrics_history[Len(metrics_history) - 1] = parse_fuzzer_stats(FileScenarioA)[1]

\* C7: the reward is 0 with fewer than two snapshots, and otherwise the
\* formula over the newest and the second-newest snapshot; for the scenario
\* it is 105.74.
C7_RewardIsFormula ==
    /\ Len(metrics_history) < 2 => compute_reward(metrics_history) = 0
    /\ Len(metrics_history) >= 2 =>
           compute_reward(metrics_history)
              = RewardFormula(Last(metrics_history), metrics_history[Len(metrics_history) - 1])
    /\ ScenarioInHistory => compute_reward(metrics_history) * 100 = 10574 * RewardScale

\* C7 witness: a full history whose two newest snapshots are the scenario's
C7_Witness ==
    /\ ScenarioInHistory
    /\ Len(metrics_history) = history_size
    /\ compute_reward(metrics_history) = 2114800

\* the history with the newest snapshot's coverage, or crash count, replaced
WithCoverage(h, c) == [h EXCEPT ![Len(h)].coverage = c, ![Len(h)].bitmap_cvg = c]
WithCrashes(h, k)  == [h EXCEPT ![Len(h)].unique_crashes = k]
CoverageValues == {0, 1, 1000, 1250, 4567, 9999, 10000}
CrashValues == {0, 1, 2, 3, 250, 251}

\* C8: of two histories of at least two snapshots that differ only in the
\* newest coverage (only in the newest crash count), the one with the
\* strictly larger delta has the strictly larger reward.
C8_RewardStrictlyMonotonic ==
    Len(metrics_history) >= 2 =>
      /\ \A c1 \in CoverageValues, c2 \in CoverageValues :
            c1 < c2 => compute_reward(WithCoverage(metrics_history, c1))
                         < compute_reward(WithCoverage(metrics_history, c2))
      /\ \A k1 \in CrashValues, k2 \in CrashValues :
            k1 < k2 => compute_reward(WithCrashes(metrics_history, k1))
                         < compute_reward(WithCrashes(metrics_history, k2))

\* C8 witness: a history whose newest snapshot has less coverage and fewer
\* crashes than the one before it (both deltas negative)
C8_Witness ==
    /\ Len(metrics_history) >= 2
    /\ Last(metrics_history).coverage < metrics_history[Len(metrics_history) - 1].coverage
    /\ Last(metrics_history).unique_crashes
           < metrics_history[Len(metrics_history) - 1].unique_crashes
    /\ compute_reward(metrics_history) < 0

\* C9: the state vector always has exactly 10 components, and all of them are
\* 0 when the history is empty.
C9_StateVectorHasTenComponents ==
    LET sv == get_state_vector(metrics_history) IN
    /\ DOMAIN sv = 1 .. 10
    /\ Len(metrics_history) = 0 => \A i \in 1 .. 10 : sv[i] = 0

\* C9 witness: the history is still empty after a failed update()
C9_Witness ==
    /\ lastOp = "FeedbackAnalyzer.update"
    /\ ret.val = "False"
    /\ Len(metrics_history) = 0
    /\ get_state_vector(metrics_history) = <<0, 0, 0, 0, 0, 0, 0, 0, 0, 0>>

\* the components that are not rates: coverage, crashes, throughput, paths,
\* stability, cycles, pending (1-based positions)
NormalizedComponents == {1, 3, 5, 6, 8, 9, 10}

\* C10: every normalized component of the state vector lies in [0, 1].
C10_NormalizedComponentsBounded ==
    \A i \in NormalizedComponents :
        /\ get_state_vector(metrics_history)[i] >= 0
        /\ get_state_vector(metrics_history)[i] <= VecScale

\* C11: is_done() is true exactly when the history holds history_size
\* snapshots and the newest has neither a higher coverage nor a higher path
\* count than the oldest; it is false for every shorter history.
C11_DoneIffFullWindowWithoutProgress ==
    LET n == Len(metrics_history) IN
    /\ n < history_size => ~is_done(metrics_history, history_size)
    /\ is_done(metrics_history, history_size)
          <=> /\ n = history_size
              /\ ~(metrics_history[n].coverage > metrics_history[1].coverage)
              /\ ~(metrics_history[n].paths_total > metrics_history[1].paths_total)

\* C11 witness: a full window that has slid at least once, whose newest
\* snapshot equals its oldest in coverage and in paths: the episode is done
C11_Witness ==
    /\ Len(polled) > history_size
    /\ Len(metrics_history) = history_size
    /\ Last(metrics_history).coverage = metrics_history[1].coverage
    /\ Last(metrics_history).paths_total = metrics_history[1].paths_total
    /\ metrics_history[2] # metrics_history[1]
    /\ is_done(metrics_history, history_size)

\* the action the last recorded selector call was made with
LastSelectedAction == Last(selector_calls)[2]

\* C12: select_strategy never raises for an integer action: for an action
\* below 0 or at or above the catalog size it selects (and returns) the default
\* HAVOC_MEDIUM, for an action in 0..7 the catalog entry with that index.
C12_SelectStrategyDefaultsOutOfRange ==
    [][lastOp' \in {"select_strategy", "set_strategy"}
          => LET a == LastSelectedAction'
                 expected == IF a < 0 \/ a >= NumStrategies THEN HAVOC_MEDIUM ELSE a
             IN /\ ret'.val # "raised"
                /\ expected \in Strategies
                /\ current_strategy' = Some(expected)
                /\ strategy_history' = Append(strategy_history, expected)]_vars

\* C12 witness: select_strategy(-1), select_strategy(8) and set_strategy(999)
\* have all been answered with HAVOC_MEDIUM
C12_Witness ==
    /\ lastOp = "set_strategy"
    /\ LastSelectedAction = 999
    /\ \E i, j \in DOMAIN selector_calls :
           /\ selector_calls[i] = <<"select", -1, 0, 0>>
           /\ selector_calls[j] = <<"select", NumStrategies, 0, 0>>
    /\ current_strategy = Some(HAVOC_MEDIUM)
    /\ strategy_history = <<HAVOC_MEDIUM, HAVOC_MEDIUM, HAVOC_MEDIUM>>

\* C13: after one or more selections (valid or out of range, outcome
\* recordings interleaved) the selection distribution over the 8 strategies
\* sums to 1: the times_selected of all strategies add up to the number of
\* selections made.
C13_DistributionSumsToOne ==
    LET d == get_strategy_distribution(Selector)
        n == CountCalls("select")
    IN n >= 1 =>
         /\ \A st \in Strategies : d[st][2] = n
         /\ d[0][1] + d[1][1] + d[2][1] + d[3][1] + d[4][1] + d[5][1] + d[6][1] + d[7][1] = n
         /\   strategy_stats[0].times_selected + strategy_stats[1].times_selected
             + strategy_stats[2].times_selected + strategy_stats[3].times_selected
             + strategy_stats[4].times_selected + strategy_stats[5].times_selected
             + strategy_stats[6].times_selected + strategy_stats[7].times_selected = n

\* C13 witness: three selections, one of them valid and two out of range,
\* with an outcome recorded between them: HAVOC_MEDIUM has 2/3
C13_Witness ==
    /\ CountCalls("select") = 3
    /\ CountCalls("update") >= 1
    /\ \E i \in DOMAIN selector_calls : selector_calls[i] = <<"select", 0, 0, 0>>
    /\ selector_calls[2][1] = "update"
    /\ get_strategy_distribution(Selector)[HAVOC_MEDIUM] = <<2, 3>>
    /\ get_strategy_distribution(Selector)[0] = <<1, 3>>

\* the score of the specification, times 100 and times times_selected:
\*   sum coverage gain * 1 + sum crashes * 50 + sum paths * 1
WeightedSum(st) ==
      strategy_stats[st].coverage_gains
    + strategy_stats[st].crashes_found * 5000
    + strategy_stats[st].paths_found * 100

\* the strategies selected at least once
SelectedStrategies == {st \in Strategies : strategy_stats[st].times_selected > 0}

\* score(a) >= score(b), and score(a) = score(b), for selected strategies
ScoreAtLeast(a, b) ==
    WeightedSum(a) * strategy_stats[b].times_selected
        >= WeightedSum(b) * strategy_stats[a].times_selected
ScoreEqual(a, b) ==
    WeightedSum(a) * strategy_stats[b].times_selected
        = WeightedSum(b) * strategy_stats[a].times_selected

\* C14: get_best_strategy returns, among the strategies selected at least
\* once, one of highest score, and of those the earliest in catalog order; it
\* returns a never-selected strategy only when none has been selected.
C14_BestStrategyIsEarliestHighestScore ==
    LET best == get_best_strategy(Selector) IN
    SelectedStrategies # {} =>
        /\ best \in SelectedStrategies
        /\ \A st \in SelectedStrategies :
              /\ ScoreAtLeast(best, st)
              /\ ScoreEqual(best, st) => best <= st

\* C14 witness: two strategies selected a different number of times share the
\* highest score (50 per selection), a third has a lower one, and the best is
\* the earlier of the two
C14_Witness ==
    \E a, b \in SelectedStrategies :
        /\ a < b
        /\ strategy_stats[a].times_selected # strategy_stats[b].times_selected
        /\ WeightedSum(a) > 0
        /\ ScoreEqual(a, b)
        /\ get_best_strategy(Selector) = a
        /\ strategy_stats[b].times_selected = 2

C16_NoDataTickChangesNothing ==
    [][(lastOp' = "iteration" /\ ret'.val = "empty")
          => /\ UNCHANGED <<states, actions, log_probs, values, rewards, dones, params>>
             /\ UNCHANGED <<strategy_stats, current_strategy, strategy_history>>
             /\ UNCHANGED <<metrics_history, baseline_metrics>>
             /\ UNCHANGED <<episodes, total_updates, training_stats>>
             /\ running' = TRUE
             /\ pc' = "loop" \/ ret'.ckpt = "failed"]_vars

\* C16 witness: a tick without data, after ticks with data, in a loop that
\* goes on
C16_Witness ==
    /\ lastOp = "iteration" /\ ret.val = "empty"
    /\ pc = "loop" /\ running
    /\ Len(metrics_history) >= 2
    /\ Len(states) >= 2
    /\ current_strategy # None

\* C17: a loop iteration whose periodic checkpoint write fails leaves the loop
\* running, and leaves last_checkpoint as it was, so that the write is tried
\* again.
C17_PeriodicCheckpointFailureIsAbsorbed ==
    [][(lastOp' = "iteration" /\ ret'.ckpt = "failed")
          => (pc' = "loop" /\ running' /\ last_checkpoint' = last_checkpoint)]_vars

\* C18: a run whose start_fuzzer failed never runs the loop, performs no
\* decision step, and has surfaced the session summary when it is over.
C18_FailedStartStillSummarises ==
    (lastOp = "start_fuzzer" /\ ret.val = "False")
        => /\ pc = "done" /\ ~running
           /\ states = << >> /\ metrics_history = << >> /\ strategy_history = << >>
           /\ events # << >>
           /\ Last(events) = "summary"

\* C19: every loop iteration that selects a strategy leaves, as the
\* configuration produced for the engine, the catalog's configuration of the
\* strategy it selected.
C19_SelectedStrategyConfigIsProduced ==
    [][(lastOp' = "iteration" /\ strategy_history' # strategy_history)
          => current_config' = Some(get_afl_mutation_config(Last(strategy_history')))]_vars

\* C20: every PPOAgent.update() call made with stored transitions (one that
\* goes past the early return and trains) leaves the six buffer sequences
\* empty.
C20_BufferEmptyAfterTrainingUpdate ==
    [][(lastOp' = "PPOAgent.update" /\ Len(states) > 0) => AllBuffersEmpty']_vars
\* C21: for a buffer holding a single transition with done = true, the
\* advantage compute_gae returns is reward minus the stored value estimate,
\* whatever the (finite) bootstrap value, gamma and gae_lambda are
C21_SingleTerminalAdvantageIsRewardMinusValue ==
    (/\ lastOp = "PPOAgent.compute_gae"
     /\ Len(rewards) = 1 /\ Len(values) = 1
     /\ dones[1])
    => /\ ~computed[1].result.raises
       /\ computed[1].result.advantages[1] = RatInt(rewards[1] - values[1])

\* compute_gae was called with a nonzero bootstrap value and the default
\* hyperparameters on one terminal transition whose reward and value differ
C21_Witness ==
    /\ lastOp = "PPOAgent.compute_gae"
    /\ Len(rewards) = 1 /\ Len(values) = 1
    /\ dones[1]
    /\ rewards[1] = 0 /\ values[1] = 1
    /\ computed[1].next_value = 1
    /\ computed[1].gamma = DefaultGamma /\ computed[1].gae_lambda = DefaultGaeLambda
    /\ computed[1].result.advantages[1] = <<-1, 1>>

\* C22: for a probability ratio within [1 - epsilon, 1 + epsilon], ends
\* included, the clipped term min(ratio * A, clip(ratio) * A) is the unclipped
\* term ratio * A, for an advantage A of either sign
C22_ClippedEqualsUnclippedInsideRange ==
    (/\ lastOp = "PPOAgent.update.policy_objective"
     /\ ~RatLess(computed[1].ratio, <<4, 5>>)
     /\ ~RatLess(<<6, 5>>, computed[1].ratio))
    => computed[1].result.objective = RatMul(computed[1].ratio, computed[1].advantage)

\* the objective was computed for the ratio at the lower end of the range and
\* a negative advantage
C22_Witness ==
    /\ lastOp = "PPOAgent.update.policy_objective"
    /\ computed[1].ratio = <<4, 5>>
    /\ computed[1].advantage = <<-3, 2>>
    /\ computed[1].result.objective = <<-6, 5>>
    /\ computed[1].result.surr2 = <<-6, 5>>

\* the temporal-difference error of index t as the recurrence states it, for
\* the call of compute_gae recorded in computed
GaeDelta(t) ==
    LET c == computed[1]
        V_next == IF t = Len(rewards) THEN c.next_value ELSE values[t + 1]
    IN  IF dones[t] THEN RatInt(rewards[t] - values[t])
        ELSE RatAdd(RatInt(rewards[t] - values[t]), RatMul(c.gamma, RatInt(V_next)))

\* C23: compute_gae gives, for every index t, A_t = delta_t + gamma * lambda *
\* (1 - done_t) * A_{t+1} with delta_t = r_t + gamma * V(s_{t+1}) * (1 - done_t)
\* - V(s_t), V(s_{t+1}) being the bootstrap value at the last index and A past
\* the end being 0, and returns_t = A_t + V(s_t); where done_t holds, A_t is
\* r_t - V(s_t), which reads nothing at indices greater than t
C23_GaeRecurrence ==
    (lastOp = "PPOAgent.compute_gae" /\ Len(rewards) = Len(values))
    => LET c == computed[1]
           A == c.result.advantages
           n == Len(rewards)
       IN  /\ ~c.result.raises
           /\ DOMAIN A = 1..n
           /\ DOMAIN c.result.returns = 1..n
           /\ \A t \in 1..n :
                 /\ A[t] = IF dones[t] \/ t = n THEN GaeDelta(t)
                           ELSE RatAdd(GaeDelta(t),
                                       RatMul(RatMul(c.gamma, c.gae_lambda), A[t + 1]))
                 /\ c.result.returns[t] = RatAdd(A[t], RatInt(values[t]))
                 /\ dones[t] => A[t] = RatInt(rewards[t] - values[t])

\* compute_gae was called with the default hyperparameters and bootstrap value
\* 1 on two non-terminal transitions: A_2 = 1 + 0.99 - 1 and
\* A_1 = 1 + 0.99 + 0.99 * 0.95 * 0.99
C23_Witness ==
    /\ lastOp = "PPOAgent.compute_gae"
    /\ rewards = <<1, 1>> /\ values = <<0, 1>> /\ dones = <<FALSE, FALSE>>
    /\ computed[1].next_value = 1
    /\ computed[1].gamma = DefaultGamma /\ computed[1].gae_lambda = DefaultGaeLambda
    /\ computed[1].result.advantages[2] = <<99, 100>>
    /\ computed[1].result.advantages[1] = <<584219, 200000>>
    /\ computed[1].result.returns[2] = <<199, 100>>

\* C24: the reward stored with a transition is computed from telemetry observed
\* after the transition's action was chosen: when the next decision step polls
\* a snapshot, the reward of the transition stored by the step before is the
\* reward of the delta up to that snapshot
C24_StoredRewardFollowsItsAction ==
    [][(/\ lastOp' = "training_step"
        /\ ret'.val = "stats"
        /\ Len(rewards) >= 1
        /\ Len(rewards') = Len(rewards) + 1)
       => rewards'[Len(rewards)] = compute_reward(metrics_history')]_vars

\* C25: update_strategy_stats adds the three values to the totals of the most
\* recently selected strategy only; the totals of every other strategy, every
\* times_selected and the selection itself stay as they were, and nothing
\* changes when no strategy has been selected yet
C25_OutcomeGoesToLastSelectedOnly ==
    [][lastOp' = "update_strategy_stats"
       => LET o == Last(selector_calls') IN
          /\ current_strategy' = current_strategy
          /\ strategy_history' = strategy_history
          /\ IF strategy_history = << >>
               THEN strategy_stats' = strategy_stats
               ELSE \A st \in Strategies :
                      /\ strategy_stats'[st].times_selected = strategy_stats[st].times_selected
                      /\ IF st = Last(strategy_history)
                           THEN /\ strategy_stats'[st].coverage_gains =
                                       strategy_stats[st].coverage_gains + o[2]
                                /\ strategy_stats'[st].crashes_found =
                                       strategy_stats[st].crashes_found + o[3]
                                /\ strategy_stats'[st].paths_found =
                                       strategy_stats[st].paths_found + o[4]
                           ELSE strategy_stats'[st] = strategy_stats[st]]_vars

\* an outcome with one crash was recorded after strategy 0 and then the last
\* strategy had been selected: the crash is with the last strategy alone
C25_Witness ==
    /\ lastOp = "update_strategy_stats"
    /\ Last(selector_calls) = <<"update", 0, 1, 0>>
    /\ strategy_history = <<0, NumStrategies - 1>>
    /\ strategy_stats[NumStrategies - 1] =
           [times_selected |-> 1, coverage_gains |-> 0, crashes_found |-> 1, paths_found |-> 0]
    /\ strategy_stats[0] =
           [times_selected |-> 1, coverage_gains |-> 0, crashes_found |-> 0, paths_found |-> 0]

C27_OutcomeAndRewardShareSnapshots ==
    [][(/\ lastOp' = "training_step"
        /\ ret'.val = "stats"
        /\ Len(metrics_history') >= 2)
       => LET st   == current_strategy'[1]
              cur  == metrics_history'[Len(metrics_history')]
              prev == metrics_history'[Len(metrics_history') - 1]
              added == <<strategy_stats'[st].coverage_gains - strategy_stats[st].coverage_gains,
                         strategy_stats'[st].crashes_found - strategy_stats[st].crashes_found,
                         strategy_stats'[st].paths_found - strategy_stats[st].paths_found>>
          IN  \/ added = <<0, 0, 0>>
              \/ added = <<cur.coverage - prev.coverage,
                           cur.unique_crashes - prev.unique_crashes,
                           cur.paths_total - prev.paths_total>>]_vars

\* C28: after any sequence of select_strategy, update_strategy_stats and
\* reset_stats calls, every strategy with a nonzero cumulative coverage gain,
\* crash count or path count has times_selected >= 1
C28_CreditedStrategyWasSelected ==
    \A st \in Strategies :
        (\/ strategy_stats[st].coverage_gains # 0
         \/ strategy_stats[st].crashes_found # 0
         \/ strategy_stats[st].paths_found # 0)
        => strategy_stats[st].times_selected >= 1

\* C29: loading the history from the file the current history was just saved
\* to gives a history for which get_state_vector, compute_reward and is_done
\* return what they returned before
C29_SaveLoadKeepsStateRewardDone ==
    [][(/\ lastOp' = "load_history"
        /\ history_file = Some(save_history(metrics_history)))
       => /\ get_state_vector(metrics_history') = get_state_vector(metrics_history)
          /\ compute_reward(metrics_history') = compute_reward(metrics_history)
          /\ is_done(metrics_history', history_size)
                 = is_done(metrics_history, history_size)]_vars

====
